---- MODULE Spec2Model ----
(***************************************************************************)
(* The movie store of src/server-movies.py: the module-level collection    *)
(* _movies guarded by _lock, and its eight tool functions, called by       *)
(* concurrent threads.  A step is one access to shared state (the lock,    *)
(* the collection, one field of a record object, the clock); local         *)
(* computation is folded into the step that follows it.                    *)
(*                                                                         *)
(* Python values: a str is a sequence of one-character strings, None is    *)
(* <<>> and a present optional value x is <<x>>, a dict object lives in    *)
(* heap at an address, a list object lives in lists at a reference.        *)
(***************************************************************************)
EXTENDS Integers, Sequences, FiniteSets, TLC

VARIABLES
    lock,      \* _lock: 0 when free, else the caller holding it
    movies,    \* _movies: the dict, as its entries [key, obj] in insertion order
    heap,      \* the record dict objects, by address
    lists,     \* the genres list objects, by reference
    clock,     \* the last reading of datetime.now(timezone.utc)
    issued,    \* the values uuid.uuid4() has returned so far
    th,        \* each caller's thread: its position and local variables
    ret,       \* what each caller's last call returned or raised
    env,       \* the callers and the argument values they use
    deleted,   \* history: the ids a delete_movie call has removed
    added      \* history: how many add_movie calls have returned each id

vars == <<lock, movies, heap, lists, clock, issued, th, ret, env, deleted, added>>

-----------------------------------------------------------------------------
(* Bounds of the model *)

MaxCallers == 2
MaxBorrowers == 3
MaxIds == 1
MaxPair == 2
MaxClock == 1
PairClock == 0
MaxLists == 3
MaxGenres == 2
MaxShelf == 3
MaxFound == 2

(* Program constants *)

MinYear == 1878
MaxYear == 3000

-----------------------------------------------------------------------------
(* Python values *)

None == <<>>
Some(x) == <<x>>
IsNone(o) == o = <<>>
Val(o) == o[1]

Min(a, b) == IF a <= b THEN a ELSE b
Max(a, b) == IF a >= b THEN a ELSE b
Range(s) == {s[i] : i \in 1..Len(s)}

\* ord() of the characters the model uses
Ord(c) ==
    CASE c = " " -> 32
      [] c = "A" -> 65
      [] c = "B" -> 66
      [] c = "a" -> 97
      [] c = "b" -> 98

\* str.lower(), one character
LowerChar(c) ==
    CASE c = "A" -> "a"
      [] c = "B" -> "b"
      [] OTHER -> c

\* str.lower()
Lower(s) == [i \in 1..Len(s) |-> LowerChar(s[i])]

RECURSIVE LStrip(_)
LStrip(s) == IF s # <<>> /\ Head(s) = " " THEN LStrip(Tail(s)) ELSE s

RECURSIVE RStrip(_)
RStrip(s) ==
    IF s # <<>> /\ s[Len(s)] = " " THEN RStrip(SubSeq(s, 1, Len(s) - 1)) ELSE s

\* str.strip()
Strip(s) == RStrip(LStrip(s))

\* (x or ""): None and "" are both falsy
OrEmpty(o) == IF IsNone(o) THEN <<>> ELSE Val(o)

\* needle in haystack, and haystack.find(needle) != -1
Contains(hay, needle) ==
    \E i \in 0..(Len(hay) - Len(needle)) :
        SubSeq(hay, i + 1, i + Len(needle)) = needle

\* Python's order on str
RECURSIVE StrLess(_, _)
StrLess(s, t) ==
    IF t = <<>> THEN FALSE
    ELSE IF s = <<>> THEN TRUE
    ELSE IF Ord(Head(s)) # Ord(Head(t)) THEN Ord(Head(s)) < Ord(Head(t))
    ELSE StrLess(Tail(s), Tail(t))

-----------------------------------------------------------------------------
(* _normalize_genres *)

RECURSIVE NormLoop(_, _, _)
NormLoop(genres, seen, out) ==
    IF genres = <<>> THEN out
    ELSE LET g2 == Strip(OrEmpty(Head(genres)))
             key == Lower(g2)
         IN  IF g2 = <<>> THEN NormLoop(Tail(genres), seen, out)
             ELSE IF key \notin seen
                  THEN NormLoop(Tail(genres), seen \cup {key}, Append(out, g2))
                  ELSE NormLoop(Tail(genres), seen, out)

\* A normalization that trims and drops the empty entries but keeps the
\* repeated ones: entries equal ignoring case must be stored once
NormalizeGenresRepeats(genres) ==
    IF IsNone(genres) \/ Val(genres) = <<>> THEN <<>>
    ELSE SelectSeq([i \in 1..Len(Val(genres)) |-> Strip(OrEmpty(Val(genres)[i]))],
                   LAMBDA g : g # <<>>)

\* genres: None or a list of optional strings
NormalizeGenres(genres) ==
    IF IsNone(genres) \/ Val(genres) = <<>> THEN <<>>
    ELSE NormLoop(Val(genres), {}, <<>>)

-----------------------------------------------------------------------------
(* Objects *)

Callers == 1..Max(MaxCallers, MaxBorrowers)
Ids == 1..Max(Max(MaxIds, MaxPair), MaxShelf)
Addrs == 1..Max(Max(MaxIds, MaxPair), MaxShelf)
ListRefs == 1..Max(MaxLists, MaxShelf)

FreeRec == [free |-> TRUE]

NoArgs ==
    [movie_id |-> 0, title |-> None, year |-> None, genres |-> None,
     director |-> None, borrower |-> <<>>, query |-> <<>>, genre |-> <<>>,
     only_available |-> FALSE]

\* A thread outside any call
Idle ==
    [pc |-> "idle", op |-> "none", a |-> NoArgs, m |-> 0, glist |-> 0,
     results |-> <<>>, kept |-> <<>>, keys |-> <<>>, i |-> 0, pre |-> <<>>,
     gone |-> {}]

NoRet == [kind |-> "none", recs |-> <<>>, who |-> None]

\* _movies.get(movie_id): the address of the record, 0 for None
DictGet(mv, k) ==
    IF \E i \in 1..Len(mv) : mv[i].key = k
    THEN mv[CHOOSE i \in 1..Len(mv) : mv[i].key = k].obj
    ELSE 0

\* _movies[movie_id] = record: a new key goes last, a present key keeps its place
DictSet(mv, k, a) ==
    IF \E i \in 1..Len(mv) : mv[i].key = k
    THEN [i \in 1..Len(mv) |-> IF mv[i].key = k THEN [key |-> k, obj |-> a] ELSE mv[i]]
    ELSE Append(mv, [key |-> k, obj |-> a])

\* A del that removes nothing: a deleted id must be gone from the collection
DictDelNothing(mv, k) == mv

\* del _movies[movie_id]
DictDel(mv, k) == SelectSeq(mv, LAMBDA e : e.key # k)

\* list(_movies.values())
DictValues(mv) == [i \in 1..Len(mv) |-> mv[i].obj]

\* The record objects still referenced: by the dict or by a thread's locals
LiveAddrs(mv, t) ==
    {mv[i].obj : i \in 1..Len(mv)}
      \cup UNION {({t[p].m} \ {0}) \cup Range(t[p].results) \cup Range(t[p].kept)
                   : p \in Callers}

\* The list objects still referenced: by a record, a thread or a returned copy
LiveLists(h, live, t, r) ==
    {h[a].genres : a \in live}
      \cup UNION {({t[p].glist} \ {0}) \cup {r[p].recs[i].genres : i \in 1..Len(r[p].recs)}
                   : p \in Callers}

\* An object nothing references is freed
ScrubHeap(h, live) == [a \in Addrs |-> IF a \in live THEN h[a] ELSE FreeRec]
ScrubLists(l, live) == [x \in ListRefs |-> IF x \in live THEN l[x] ELSE <<>>]

\* The next state of the collection, the objects and the threads
Commit(mv, h, l, t, r) ==
    /\ movies' = mv
    /\ th' = t
    /\ ret' = r
    /\ heap' = ScrubHeap(h, LiveAddrs(mv, t))
    /\ lists' = ScrubLists(l, LiveLists(heap', LiveAddrs(mv, t), t, r))

\* The collection as a reader under the lock sees it: every entry with its
\* record's fields, the genres list by content
View(mv, h, l) ==
    [i \in 1..Len(mv) |->
        [key |-> mv[i].key, rec |-> h[mv[i].obj], genres |-> l[h[mv[i].obj].genres]]]

\* _now_iso(): the clock read now is not before the last reading
Now(c) == c..Min(c + 1, env.maxClock)

\* A generator that may return a value again: two add_movie calls must not
\* return the same id
Uuid4Again == env.ids

\* uuid.uuid4(): a value it has not returned before
Uuid4 == env.ids \ issued

\* _require_movie: the record, or 0 where the code raises "Movie not found"
RequireMovie(mv, movie_id) == DictGet(mv, movie_id)

\* _movie_public: dict(m), a new dict with the same values (the same genres list)
MoviePublic(m) == m

\* No caller holds a result it has not read yet
Quiet == \A q \in Callers : th[q].pc # "done"

\* Thread p is at `pc` and runs. A caller reads its result as soon as its call
\* ends (env.prompt): that is local to the caller, so running it before any
\* other thread loses no behaviour of the store.
At(p, pc) == th[p].pc = pc /\ (env.prompt => Quiet)

\* raise ValueError(...): the call ends with the error, its locals are dropped
Raise(t, p) ==
    [t EXCEPT ![p] = [Idle EXCEPT !.pc = "done", !.op = t[p].op, !.a = t[p].a,
                                  !.pre = t[p].pre, !.gone = t[p].gone]]

\* Every error is a ValueError; its kind here is its message: "InvalidArgument"
\* for "title is required.", "title cannot be empty.", "year looks invalid." and
\* "borrower is required.", "NotFound" for "Movie not found: ...", "Conflict"
\* for "Movie is already borrowed by {who}.", "InvalidState" for "Movie is not
\* borrowed."
Raised(r, p, kind, who) == [r EXCEPT ![p] = [kind |-> kind, recs |-> <<>>, who |-> who]]

\* return value: the call ends with the result
Return(t, p) ==
    [t EXCEPT ![p] = [Idle EXCEPT !.pc = "done", !.op = t[p].op, !.a = t[p].a,
                                  !.pre = t[p].pre, !.gone = t[p].gone]]

Returned(r, p, recs) == [r EXCEPT ![p] = [kind |-> "ok", recs |-> recs, who |-> None]]

-----------------------------------------------------------------------------
(* with _lock: *)

\* __enter__: a thread enters the block only when no thread holds the lock. A
\* call that is waiting for the lock has done nothing yet that another thread
\* can see, so a call starts at the step that acquires the lock.
Enter(p, from) ==
    /\ At(p, from)
    /\ lock = 0

\* The thread stays in the block after this step
Hold(p) == lock' = p

\* __exit__: runs when the block returns and when it raises
Release(p) == lock' = 0

\* The call's name and arguments, and for the history which ids had been deleted
\* and what the collection held when the call took effect (kept by the calls
\* that can raise)
Entered(t, p, op, a) ==
    [t EXCEPT ![p].op = op, ![p].a = a, ![p].gone = deleted,
              ![p].pre = IF op \in {"search", "list"} THEN <<>>
                         ELSE View(movies, heap, lists)]

-----------------------------------------------------------------------------
(* add_movie *)

\* Lines 79-97: validation, and the record built before the lock is taken
AddCall(p, title, year, genres, director) ==
    /\ At(p, "idle")
    /\ LET t == Strip(title)
           a0 == [NoArgs EXCEPT !.title = Some(title), !.year = Some(year),
                                !.genres = genres, !.director = director]
           t0 == Entered(th, p, "add", a0)
           freeA == Addrs \ LiveAddrs(movies, th)
           freeL == ListRefs \ LiveLists(heap, LiveAddrs(movies, th), th, ret)
       IN  IF t = <<>> \/ year < MinYear \/ year > MaxYear
           THEN /\ Commit(movies, heap, lists, Raise(t0, p),
                          Raised(ret, p, "InvalidArgument", None))
                /\ UNCHANGED <<lock, clock, issued, env, deleted, added>>
           ELSE \E movie_id \in Uuid4 :
                \E created_at \in Now(clock) :
                \E updated_at \in Now(created_at) :
                \E a \in freeA :
                \E g \in freeL :
                  /\ \A b \in freeA : a <= b
                  /\ \A x \in freeL : g <= x
                  /\ LET d == Strip(OrEmpty(director))
                         record == [id |-> movie_id, title |-> t, year |-> year,
                                    genres |-> g,
                                    director |-> IF d = <<>> THEN None ELSE Some(d),
                                    borrowed |-> FALSE, borrowed_by |-> None,
                                    borrowed_at |-> None,
                                    created_at |-> created_at, updated_at |-> updated_at]
                     IN  Commit(movies, [heap EXCEPT ![a] = record],
                                [lists EXCEPT ![g] = NormalizeGenres(genres)],
                                [t0 EXCEPT ![p].pc = "add_lock", ![p].m = a,
                                           ![p].a.movie_id = movie_id, ![p].pre = <<>>],
                                ret)
                  /\ issued' = issued \cup {movie_id}
                  /\ clock' = updated_at
                  /\ UNCHANGED <<lock, env, deleted, added>>

\* Lines 99-100: with _lock: _movies[movie_id] = record
AddInsert(p) ==
    /\ Enter(p, "add_lock")
    /\ Commit(DictSet(movies, th[p].a.movie_id, th[p].m), heap, lists,
              [th EXCEPT ![p].pc = "add_return"], ret)
    /\ Release(p)
    /\ UNCHANGED <<clock, issued, env, deleted, added>>

\* Line 102: return _movie_public(record), after the with block
AddReturn(p) ==
    /\ At(p, "add_return")
    /\ Commit(movies, heap, lists, Return(th, p),
              Returned(ret, p, <<MoviePublic(heap[th[p].m])>>))
    /\ added' = [added EXCEPT ![heap[th[p].m].id] = @ + 1]
    /\ UNCHANGED <<lock, clock, issued, env, deleted>>

-----------------------------------------------------------------------------
(* get_movie *)

\* A get_movie that stamps the record it reads: reading must change nothing
GetMovieStamps(p, movie_id) ==
    /\ Enter(p, "idle")
    /\ LET t0 == Entered(th, p, "get", [NoArgs EXCEPT !.movie_id = movie_id])
           m == RequireMovie(movies, movie_id)
       IN  IF m = 0
           THEN /\ Commit(movies, heap, lists, Raise(t0, p),
                          Raised(ret, p, "NotFound", None))
                /\ UNCHANGED clock
           ELSE /\ clock' = env.maxClock
                /\ LET h == [heap EXCEPT ![m].updated_at = env.maxClock]
                   IN  Commit(movies, h, lists, Return(t0, p),
                              Returned(ret, p, <<MoviePublic(h[m])>>))
    /\ Release(p)
    /\ UNCHANGED <<issued, env, deleted, added>>

\* with _lock: m = _require_movie(movie_id); return _movie_public(m)
GetMovie(p, movie_id) ==
    /\ Enter(p, "idle")
    /\ LET t0 == Entered(th, p, "get", [NoArgs EXCEPT !.movie_id = movie_id])
           m == RequireMovie(movies, movie_id)
       IN  IF m = 0
           THEN Commit(movies, heap, lists, Raise(t0, p), Raised(ret, p, "NotFound", None))
           ELSE Commit(movies, heap, lists, Return(t0, p),
                       Returned(ret, p, <<MoviePublic(heap[m])>>))
    /\ Release(p)
    /\ UNCHANGED <<clock, issued, env, deleted, added>>

-----------------------------------------------------------------------------
(* delete_movie *)

\* A delete_movie that refuses a borrowed record: the checkout state must not
\* restrict delete
DeleteMovieAvailable(p, movie_id) ==
    /\ Enter(p, "idle")
    /\ LET t0 == Entered(th, p, "delete", [NoArgs EXCEPT !.movie_id = movie_id])
           m == RequireMovie(movies, movie_id)
       IN  IF m = 0
           THEN /\ Commit(movies, heap, lists, Raise(t0, p),
                          Raised(ret, p, "NotFound", None))
                /\ UNCHANGED deleted
           ELSE IF heap[m].borrowed
           THEN /\ Commit(movies, heap, lists, Raise(t0, p),
                          Raised(ret, p, "Conflict", heap[m].borrowed_by))
                /\ UNCHANGED deleted
           ELSE /\ Commit(DictDel(movies, movie_id), heap, lists, Return(t0, p),
                          Returned(ret, p, <<>>))
                /\ deleted' = deleted \cup {movie_id}
    /\ Release(p)
    /\ UNCHANGED <<clock, issued, env, added>>

\* with _lock: _require_movie(movie_id); del _movies[movie_id]
DeleteMovie(p, movie_id) ==
    /\ Enter(p, "idle")
    /\ LET t0 == Entered(th, p, "delete", [NoArgs EXCEPT !.movie_id = movie_id])
           m == RequireMovie(movies, movie_id)
       IN  IF m = 0
           THEN /\ Commit(movies, heap, lists, Raise(t0, p),
                          Raised(ret, p, "NotFound", None))
                /\ UNCHANGED deleted
           ELSE /\ Commit(DictDel(movies, movie_id), heap, lists, Return(t0, p),
                          Returned(ret, p, <<>>))
                /\ deleted' = deleted \cup {movie_id}
    /\ Release(p)
    /\ UNCHANGED <<clock, issued, env, added>>

-----------------------------------------------------------------------------
(* The order of list_movies and search_movies *)

\* A sort key without lower(): titles that differ only in case must tie
SortKeyCased(m) == <<m.title, m.year, m.id>>

\* key=lambda x: (x["title"].lower(), x["year"], x["id"])
SortKey(m) == <<Lower(m.title), m.year, m.id>>

\* Python's order on these tuples
KeyLess(k1, k2) ==
    \/ StrLess(k1[1], k2[1])
    \/ k1[1] = k2[1] /\ k1[2] < k2[2]
    \/ k1[1] = k2[1] /\ k1[2] = k2[2] /\ k1[3] < k2[3]

\* list.sort on the pairs [key, item]: stable, an item goes after its equals
RECURSIVE InsertSorted(_, _)
InsertSorted(x, s) ==
    IF s = <<>> THEN <<x>>
    ELSE IF KeyLess(x.key, Head(s).key) THEN <<x>> \o s
    ELSE <<Head(s)>> \o InsertSorted(x, Tail(s))

RECURSIVE SortPairs(_)
SortPairs(s) ==
    IF s = <<>> THEN <<>>
    ELSE InsertSorted(s[Len(s)], SortPairs(SubSeq(s, 1, Len(s) - 1)))

\* items.sort(key=...) with the keys given
SortedBy(items, keys) ==
    LET sorted == SortPairs([i \in 1..Len(items) |-> [key |-> keys[i], item |-> items[i]]])
    IN  [i \in 1..Len(sorted) |-> sorted[i].item]

-----------------------------------------------------------------------------
(* list_movies *)

\* The body of list_movies, all of it under the lock
ListItems(mv, h, only_available) ==
    LET all == DictValues(mv)
        items == IF only_available
                 THEN SelectSeq(all, LAMBDA a : ~h[a].borrowed)
                 ELSE all
        sorted == SortedBy(items, [i \in 1..Len(items) |-> SortKey(h[items[i]])])
    IN  [i \in 1..Len(sorted) |-> MoviePublic(h[sorted[i]])]

ListMovies(p, only_available) ==
    /\ Enter(p, "idle")
    /\ Commit(movies, heap, lists,
              Return(Entered(th, p, "list",
                             [NoArgs EXCEPT !.only_available = only_available]), p),
              Returned(ret, p, ListItems(movies, heap, only_available)))
    /\ Release(p)
    /\ UNCHANGED <<clock, issued, env, deleted, added>>

-----------------------------------------------------------------------------
(* search_movies *)

\* q, g, d: the filters as compared, "" when not given
SearchQ(a) == Lower(Strip(OrEmpty(a.query)))
SearchG(a) == Lower(Strip(OrEmpty(a.genre)))
SearchD(a) == Lower(Strip(OrEmpty(a.director)))

\* The if statements of lines 148-157 in order: is the filter applied
StageOn(stage, a) ==
    CASE stage = "search_avail" -> a.only_available
      [] stage = "search_q" -> SearchQ(a) # <<>>
      [] stage = "search_year" -> ~IsNone(a.year)
      [] stage = "search_g" -> SearchG(a) # <<>>
      [] stage = "search_d" -> SearchD(a) # <<>>
      [] OTHER -> TRUE

Stages ==
    <<"search_avail", "search_q", "search_year", "search_g", "search_d",
      "search_key", "search_copy">>

StageIndex(stage) == CHOOSE i \in 1..Len(Stages) : Stages[i] = stage

\* The next statement that reads a record: a comprehension, the sort and the
\* final comprehension visit nothing when results is empty
StageAfter(n, a, results) ==
    IF results = <<>> THEN "search_end"
    ELSE LET later == {i \in (n + 1)..Len(Stages) : StageOn(Stages[i], a)}
         IN  Stages[CHOOSE i \in later : \A j \in later : i <= j]

\* Comprehensions whose director filter lets a record without director through:
\* an absent director must never match
KeepsAbsent(stage, a, m, l) ==
    CASE stage = "search_avail" -> ~m.borrowed
      [] stage = "search_q" -> Contains(Lower(m.title), SearchQ(a))
      [] stage = "search_year" -> m.year = Val(a.year)
      [] stage = "search_g" ->
            \E i \in 1..Len(l[m.genres]) : SearchG(a) = Lower(l[m.genres][i])
      [] stage = "search_d" ->
            IsNone(m.director) \/ Contains(Lower(OrEmpty(m.director)), SearchD(a))

\* The condition of each comprehension on one record m
Keeps(stage, a, m, l) ==
    CASE stage = "search_avail" -> ~m.borrowed
      [] stage = "search_q" -> Contains(Lower(m.title), SearchQ(a))
      [] stage = "search_year" -> m.year = Val(a.year)
      [] stage = "search_g" ->
            \E i \in 1..Len(l[m.genres]) : SearchG(a) = Lower(l[m.genres][i])
      [] stage = "search_d" -> Contains(Lower(OrEmpty(m.director)), SearchD(a))

\* A search that has no record left to visit returns the empty list
SearchGoto(t, r, p, stage, results) ==
    IF stage = "search_end"
    THEN Commit(movies, heap, lists, Return(t, p), Returned(r, p, r[p].recs))
    ELSE Commit(movies, heap, lists,
                [t EXCEPT ![p].pc = stage, ![p].results = results, ![p].kept = <<>>,
                          ![p].keys = <<>>, ![p].i = 1], r)

\* Lines 145-146: with _lock: results = list(_movies.values())
SearchSnapshot(p, query, year, genre, director, only_available) ==
    /\ Enter(p, "idle")
    /\ LET a == [NoArgs EXCEPT !.query = query, !.year = year, !.genre = genre,
                               !.director = director, !.only_available = only_available]
           results == DictValues(movies)
       IN  SearchGoto(Entered(th, p, "search", a), ret, p, StageAfter(0, a, results),
                      results)
    /\ Release(p)
    /\ UNCHANGED <<clock, issued, env, deleted, added>>

\* One iteration of the comprehension at `stage`: it reads one record's field
FilterStep(p, stage) ==
    /\ At(p, stage)
    /\ LET me == th[p]
           m == heap[me.results[me.i]]
           kept == IF Keeps(stage, me.a, m, lists)
                   THEN Append(me.kept, me.results[me.i]) ELSE me.kept
       IN  IF me.i < Len(me.results)
           THEN Commit(movies, heap, lists,
                       [th EXCEPT ![p].kept = kept, ![p].i = me.i + 1], ret)
           ELSE SearchGoto(th, ret, p, StageAfter(StageIndex(stage), me.a, kept), kept)
    /\ UNCHANGED <<lock, clock, issued, env, deleted, added>>

SearchAvailable(p) == FilterStep(p, "search_avail")
SearchQuery(p) == FilterStep(p, "search_q")
SearchYear(p) == FilterStep(p, "search_year")
SearchGenre(p) == FilterStep(p, "search_g")
SearchDirector(p) == FilterStep(p, "search_d")

\* results.sort(key=...): the key function reads title, year and id of each
\* record in turn, then the list is ordered by the keys read
SearchKey(p) ==
    /\ At(p, "search_key")
    /\ LET me == th[p]
           n == Len(me.keys)
           open == n > 0 /\ Len(me.keys[n]) < 3
           m == heap[me.results[IF open THEN n ELSE n + 1]]
           keys == IF ~open THEN Append(me.keys, <<Lower(m.title)>>)
                   ELSE IF Len(me.keys[n]) = 1 THEN [me.keys EXCEPT ![n] = Append(@, m.year)]
                   ELSE [me.keys EXCEPT ![n] = Append(@, m.id)]
       IN  IF Len(keys) = Len(me.results) /\ Len(keys[Len(keys)]) = 3
           THEN SearchGoto(th, ret, p, "search_copy", SortedBy(me.results, keys))
           ELSE Commit(movies, heap, lists, [th EXCEPT ![p].keys = keys], ret)
    /\ UNCHANGED <<lock, clock, issued, env, deleted, added>>

\* [_movie_public(m) for m in results]: one copy per iteration
SearchCopy(p) ==
    /\ At(p, "search_copy")
    /\ LET me == th[p]
           recs == Append(ret[p].recs, MoviePublic(heap[me.results[me.i]]))
       IN  IF me.i < Len(me.results)
           THEN Commit(movies, heap, lists, [th EXCEPT ![p].i = me.i + 1],
                       [ret EXCEPT ![p].recs = recs])
           ELSE Commit(movies, heap, lists, Return(th, p), Returned(ret, p, recs))
    /\ UNCHANGED <<lock, clock, issued, env, deleted, added>>

-----------------------------------------------------------------------------
(* update_movie *)

UpdateStages == <<"update_title", "update_year", "update_genres", "update_director">>

UpdateOn(stage, a) ==
    CASE stage = "update_title" -> ~IsNone(a.title)
      [] stage = "update_year" -> ~IsNone(a.year)
      [] stage = "update_genres" -> ~IsNone(a.genres)
      [] stage = "update_director" -> ~IsNone(a.director)

\* The next if statement of lines 175-192 whose argument is given, else line 194
UpdateAfter(n, a) ==
    LET later == {i \in (n + 1)..Len(UpdateStages) : UpdateOn(UpdateStages[i], a)}
    IN  IF later = {} THEN "update_stamp"
        ELSE UpdateStages[CHOOSE i \in later : \A j \in later : i <= j]

\* Lines 172-173: with _lock: m = _require_movie(movie_id). The new genres list
\* of line 188 is a fresh object nothing else sees until it is stored: it is
\* built here.
UpdateRequire(p, movie_id, title, year, genres, director) ==
    /\ Enter(p, "idle")
    /\ LET a == [NoArgs EXCEPT !.movie_id = movie_id, !.title = title, !.year = year,
                               !.genres = genres, !.director = director]
           t0 == Entered(th, p, "update", a)
           m == RequireMovie(movies, movie_id)
           free == ListRefs \ LiveLists(heap, LiveAddrs(movies, th), th, ret)
       IN  IF m = 0
           THEN /\ Commit(movies, heap, lists, Raise(t0, p),
                          Raised(ret, p, "NotFound", None))
                /\ Release(p)
           ELSE IF IsNone(genres)
           THEN /\ Commit(movies, heap, lists,
                          [t0 EXCEPT ![p].pc = UpdateAfter(0, a), ![p].m = m], ret)
                /\ Hold(p)
           ELSE \E g \in free :
                  /\ \A x \in free : g <= x
                  /\ Commit(movies, heap, [lists EXCEPT ![g] = NormalizeGenres(genres)],
                            [t0 EXCEPT ![p].pc = UpdateAfter(0, a), ![p].m = m,
                                       ![p].glist = g], ret)
                  /\ Hold(p)
    /\ UNCHANGED <<clock, issued, env, deleted, added>>

\* Lines 175-179: if title is not None: ... m["title"] = t
UpdateTitle(p) ==
    /\ At(p, "update_title")
    /\ LET t == Strip(Val(th[p].a.title))
       IN  IF t = <<>>
           THEN /\ Commit(movies, heap, lists, Raise(th, p),
                          Raised(ret, p, "InvalidArgument", None))
                /\ Release(p)
           ELSE /\ Commit(movies, [heap EXCEPT ![th[p].m].title = t], lists,
                          [th EXCEPT ![p].pc = UpdateAfter(1, th[p].a)], ret)
                /\ UNCHANGED lock
    /\ UNCHANGED <<clock, issued, env, deleted, added>>

\* An update_movie whose raise at line 185 leaves the lock held: every exit
\* path must release it
UpdateYearLeak(p) ==
    /\ At(p, "update_year")
    /\ LET y == Val(th[p].a.year)
       IN  IF y < MinYear \/ y > MaxYear
           THEN Commit(movies, heap, lists, Raise(th, p),
                       Raised(ret, p, "InvalidArgument", None))
           ELSE Commit(movies, [heap EXCEPT ![th[p].m].year = y], lists,
                       [th EXCEPT ![p].pc = UpdateAfter(2, th[p].a)], ret)
    /\ UNCHANGED <<lock, clock, issued, env, deleted, added>>

\* Lines 181-185: if year is not None: ... m["year"] = y
UpdateYear(p) ==
    /\ At(p, "update_year")
    /\ LET y == Val(th[p].a.year)
       IN  IF y < MinYear \/ y > MaxYear
           THEN /\ Commit(movies, heap, lists, Raise(th, p),
                          Raised(ret, p, "InvalidArgument", None))
                /\ Release(p)
           ELSE /\ Commit(movies, [heap EXCEPT ![th[p].m].year = y], lists,
                          [th EXCEPT ![p].pc = UpdateAfter(2, th[p].a)], ret)
                /\ UNCHANGED lock
    /\ UNCHANGED <<clock, issued, env, deleted, added>>

\* Lines 187-188: if genres is not None: m["genres"] = _normalize_genres(genres)
UpdateGenres(p) ==
    /\ At(p, "update_genres")
    /\ Commit(movies, [heap EXCEPT ![th[p].m].genres = th[p].glist], lists,
              [th EXCEPT ![p].pc = UpdateAfter(3, th[p].a), ![p].glist = 0], ret)
    /\ UNCHANGED <<lock, clock, issued, env, deleted, added>>

\* An update_movie that resets the checkout flag at line 191: the checkout
\* state is not the update's to change
UpdateDirectorFrees(p) ==
    /\ At(p, "update_director")
    /\ LET d == Strip(Val(th[p].a.director))
       IN  Commit(movies,
                  [heap EXCEPT ![th[p].m].director = IF d = <<>> THEN None ELSE Some(d),
                               ![th[p].m].borrowed = FALSE],
                  lists, [th EXCEPT ![p].pc = UpdateAfter(4, th[p].a)], ret)
    /\ UNCHANGED <<lock, clock, issued, env, deleted, added>>

\* Lines 190-192: if director is not None: m["director"] = d or None
UpdateDirector(p) ==
    /\ At(p, "update_director")
    /\ LET d == Strip(Val(th[p].a.director))
       IN  Commit(movies,
                  [heap EXCEPT ![th[p].m].director = IF d = <<>> THEN None ELSE Some(d)],
                  lists, [th EXCEPT ![p].pc = UpdateAfter(4, th[p].a)], ret)
    /\ UNCHANGED <<lock, clock, issued, env, deleted, added>>

\* An update_movie that stamps created_at at line 194: created_at must not
\* change after add_movie
UpdateStampCreated(p) ==
    /\ At(p, "update_stamp")
    /\ \E now \in Now(clock) :
         /\ clock' = now
         /\ LET h == [heap EXCEPT ![th[p].m].created_at = now]
            IN  Commit(movies, h, lists, Return(th, p),
                       Returned(ret, p, <<MoviePublic(h[th[p].m])>>))
    /\ Release(p)
    /\ UNCHANGED <<issued, env, deleted, added>>

\* Lines 194-195: m["updated_at"] = _now_iso(); return _movie_public(m)
UpdateStamp(p) ==
    /\ At(p, "update_stamp")
    /\ \E now \in Now(clock) :
         /\ clock' = now
         /\ LET h == [heap EXCEPT ![th[p].m].updated_at = now]
            IN  Commit(movies, h, lists, Return(th, p),
                       Returned(ret, p, <<MoviePublic(h[th[p].m])>>))
    /\ Release(p)
    /\ UNCHANGED <<issued, env, deleted, added>>

-----------------------------------------------------------------------------
(* borrow_movie *)

\* A borrow_movie that looks the id up before it checks the borrower: an empty
\* borrower must be rejected whatever the id
BorrowInvalidLate(p, movie_id, borrower) ==
    /\ Enter(p, "idle")
    /\ Strip(OrEmpty(borrower)) = <<>>
    /\ Commit(movies, heap, lists,
              Raise(Entered(th, p, "borrow",
                            [NoArgs EXCEPT !.movie_id = movie_id, !.borrower = borrower]), p),
              Raised(ret, p,
                     IF RequireMovie(movies, movie_id) = 0 THEN "NotFound"
                     ELSE "InvalidArgument", None))
    /\ UNCHANGED <<lock, clock, issued, env, deleted, added>>

\* Lines 210-212: the borrower is checked before the lock is taken
BorrowInvalid(p, movie_id, borrower) ==
    /\ At(p, "idle")
    /\ Strip(OrEmpty(borrower)) = <<>>
    /\ Commit(movies, heap, lists,
              Raise(Entered(th, p, "borrow",
                            [NoArgs EXCEPT !.movie_id = movie_id, !.borrower = borrower]), p),
              Raised(ret, p, "InvalidArgument", None))
    /\ UNCHANGED <<lock, clock, issued, env, deleted, added>>

\* A borrow_movie without the test of line 216: a second borrower must not get
\* the record
BorrowCheckBlind(p, movie_id, borrower) ==
    /\ Enter(p, "idle")
    /\ Strip(OrEmpty(borrower)) # <<>>
    /\ LET t0 == Entered(th, p, "borrow",
                         [NoArgs EXCEPT !.movie_id = movie_id, !.borrower = borrower])
           m == RequireMovie(movies, movie_id)
       IN  IF m = 0
           THEN /\ Commit(movies, heap, lists, Raise(t0, p),
                          Raised(ret, p, "NotFound", None))
                /\ Release(p)
           ELSE /\ Commit(movies, [heap EXCEPT ![m].borrowed = TRUE], lists,
                          [t0 EXCEPT ![p].pc = "borrow_by", ![p].m = m], ret)
                /\ Hold(p)
    /\ UNCHANGED <<clock, issued, env, deleted, added>>

\* Lines 214-218: with _lock: m = _require_movie(movie_id);
\* if m["borrowed"]: raise; m["borrowed"] = True
BorrowCheck(p, movie_id, borrower) ==
    /\ Enter(p, "idle")
    /\ Strip(OrEmpty(borrower)) # <<>>
    /\ LET t0 == Entered(th, p, "borrow",
                         [NoArgs EXCEPT !.movie_id = movie_id, !.borrower = borrower])
           m == RequireMovie(movies, movie_id)
       IN  IF m = 0
           THEN /\ Commit(movies, heap, lists, Raise(t0, p),
                          Raised(ret, p, "NotFound", None))
                /\ Release(p)
           ELSE IF heap[m].borrowed
           THEN /\ Commit(movies, heap, lists, Raise(t0, p),
                          Raised(ret, p, "Conflict", heap[m].borrowed_by))
                /\ Release(p)
           ELSE /\ Commit(movies, [heap EXCEPT ![m].borrowed = TRUE], lists,
                          [t0 EXCEPT ![p].pc = "borrow_by", ![p].m = m], ret)
                /\ Hold(p)
    /\ UNCHANGED <<clock, issued, env, deleted, added>>

\* Line 219: m["borrowed_by"] = borrower
BorrowBy(p) ==
    /\ At(p, "borrow_by")
    /\ Commit(movies,
              [heap EXCEPT ![th[p].m].borrowed_by = Some(Strip(OrEmpty(th[p].a.borrower)))],
              lists, [th EXCEPT ![p].pc = "borrow_at"], ret)
    /\ UNCHANGED <<lock, clock, issued, env, deleted, added>>

\* Line 220: m["borrowed_at"] = _now_iso()
BorrowAt(p) ==
    /\ At(p, "borrow_at")
    /\ \E now \in Now(clock) :
         /\ clock' = now
         /\ Commit(movies, [heap EXCEPT ![th[p].m].borrowed_at = Some(now)], lists,
                   [th EXCEPT ![p].pc = "borrow_stamp"], ret)
    /\ UNCHANGED <<lock, issued, env, deleted, added>>

\* Lines 221-222: m["updated_at"] = _now_iso(); return _movie_public(m)
BorrowStamp(p) ==
    /\ At(p, "borrow_stamp")
    /\ \E now \in Now(clock) :
         /\ clock' = now
         /\ LET h == [heap EXCEPT ![th[p].m].updated_at = now]
            IN  Commit(movies, h, lists, Return(th, p),
                       Returned(ret, p, <<MoviePublic(h[th[p].m])>>))
    /\ Release(p)
    /\ UNCHANGED <<issued, env, deleted, added>>

-----------------------------------------------------------------------------
(* return_movie *)

\* A return_movie without the test of line 230: returning a record that is not
\* borrowed must be rejected
ReturnCheckSilent(p, movie_id) ==
    /\ Enter(p, "idle")
    /\ LET t0 == Entered(th, p, "return", [NoArgs EXCEPT !.movie_id = movie_id])
           m == RequireMovie(movies, movie_id)
       IN  IF m = 0
           THEN /\ Commit(movies, heap, lists, Raise(t0, p),
                          Raised(ret, p, "NotFound", None))
                /\ Release(p)
           ELSE /\ Commit(movies, [heap EXCEPT ![m].borrowed = FALSE], lists,
                          [t0 EXCEPT ![p].pc = "return_by", ![p].m = m], ret)
                /\ Hold(p)
    /\ UNCHANGED <<clock, issued, env, deleted, added>>

\* Lines 228-232: with _lock: m = _require_movie(movie_id);
\* if not m["borrowed"]: raise; m["borrowed"] = False
ReturnCheck(p, movie_id) ==
    /\ Enter(p, "idle")
    /\ LET t0 == Entered(th, p, "return", [NoArgs EXCEPT !.movie_id = movie_id])
           m == RequireMovie(movies, movie_id)
       IN  IF m = 0
           THEN /\ Commit(movies, heap, lists, Raise(t0, p),
                          Raised(ret, p, "NotFound", None))
                /\ Release(p)
           ELSE IF ~heap[m].borrowed
           THEN /\ Commit(movies, heap, lists, Raise(t0, p),
                          Raised(ret, p, "InvalidState", None))
                /\ Release(p)
           ELSE /\ Commit(movies, [heap EXCEPT ![m].borrowed = FALSE], lists,
                          [t0 EXCEPT ![p].pc = "return_by", ![p].m = m], ret)
                /\ Hold(p)
    /\ UNCHANGED <<clock, issued, env, deleted, added>>

\* Line 233: m["borrowed_by"] = None
ReturnBy(p) ==
    /\ At(p, "return_by")
    /\ Commit(movies, [heap EXCEPT ![th[p].m].borrowed_by = None], lists,
              [th EXCEPT ![p].pc = "return_at"], ret)
    /\ UNCHANGED <<lock, clock, issued, env, deleted, added>>

\* A return_movie that forgets line 234: the checkout invariant must reject it
ReturnAtKept(p) ==
    /\ At(p, "return_at")
    /\ Commit(movies, heap, lists, [th EXCEPT ![p].pc = "return_stamp"], ret)
    /\ UNCHANGED <<lock, clock, issued, env, deleted, added>>

\* Line 234: m["borrowed_at"] = None
ReturnAt(p) ==
    /\ At(p, "return_at")
    /\ Commit(movies, [heap EXCEPT ![th[p].m].borrowed_at = None], lists,
              [th EXCEPT ![p].pc = "return_stamp"], ret)
    /\ UNCHANGED <<lock, clock, issued, env, deleted, added>>

\* Lines 235-236: m["updated_at"] = _now_iso(); return _movie_public(m)
ReturnStamp(p) ==
    /\ At(p, "return_stamp")
    /\ \E now \in Now(clock) :
         /\ clock' = now
         /\ LET h == [heap EXCEPT ![th[p].m].updated_at = now]
            IN  Commit(movies, h, lists, Return(th, p),
                       Returned(ret, p, <<MoviePublic(h[th[p].m])>>))
    /\ Release(p)
    /\ UNCHANGED <<issued, env, deleted, added>>

-----------------------------------------------------------------------------
(* The caller *)

\* The caller has read the result and may call again
Forget(p) ==
    /\ th[p].pc = "done"
    /\ Commit(movies, heap, lists, [th EXCEPT ![p] = Idle], [ret EXCEPT ![p] = NoRet])
    /\ UNCHANGED <<lock, clock, issued, env, deleted, added>>

-----------------------------------------------------------------------------
(* The store with concurrent callers *)

\* The argument values of the calls of Spec
AddArgs ==
    {[title |-> <<"a">>, year |-> 1878, genres |-> None, director |-> None],
     [title |-> <<" ">>, year |-> 1878, genres |-> None, director |-> None],
     [title |-> <<"a">>, year |-> 3001, genres |-> None, director |-> None]}

UpdateArgs ==
    {[title |-> Some(<<"b">>), year |-> Some(1877), genres |-> None, director |-> None],
     [title |-> Some(<<" ">>), year |-> None, genres |-> None, director |-> None],
     [title |-> None, year |-> Some(3000), genres |-> Some(<<Some(<<"a">>)>>),
      director |-> Some(<<"b">>)]}

BorrowerArgs == {Some(<<"a">>), Some(<<" ">>)}

SearchArgs ==
    {[query |-> None, year |-> None, genre |-> None, director |-> None,
      only_available |-> TRUE],
     [query |-> Some(<<"a">>), year |-> Some(1878), genre |-> Some(<<"A">>),
      director |-> Some(<<"B">>), only_available |-> FALSE]}

\* The argument values of the calls of SpecPair
PairAdds == {[title |-> <<"a">>, year |-> 1878, genres |-> None, director |-> None]}

PairUpdates ==
    {[title |-> Some(<<"A">>), year |-> None, genres |-> None, director |-> None]}

PairBorrowers == {Some(<<"a">>), Some(<<" ">>)}

PairSearches ==
    {[query |-> None, year |-> None, genre |-> None, director |-> None,
      only_available |-> TRUE]}

\* The filters of the search_movies calls of SpecFound: none, each alone, and
\* together; with padding and in the other case than the records
NoFilter ==
    [query |-> None, year |-> None, genre |-> None, director |-> None,
     only_available |-> FALSE]

FoundSearches ==
    {NoFilter,
     [NoFilter EXCEPT !.only_available = TRUE],
     [NoFilter EXCEPT !.query = Some(<<"B", " ">>)],
     [NoFilter EXCEPT !.year = Some(MinYear)],
     [NoFilter EXCEPT !.genre = Some(<<" ", "a">>)],
     [NoFilter EXCEPT !.director = Some(<<"b">>)],
     [NoFilter EXCEPT !.director = Some(<<" ">>)],
     [NoFilter EXCEPT !.query = Some(<<"a">>), !.year = Some(MinYear)],
     [NoFilter EXCEPT !.genre = Some(<<"B">>), !.only_available = TRUE],
     [query |-> Some(<<"A">>), year |-> Some(MinYear + 1), genre |-> Some(<<"a">>),
      director |-> Some(<<"A">>), only_available |-> TRUE]}

\* The arguments of the add_movie and update_movie calls of SpecOnce: titles
\* and years at and beside the limits, and every field alone and together
OnceAdds ==
    [title : {<<"a">>, <<" ", "a", " ">>, <<" ">>, <<>>},
     year : {MinYear - 1, MinYear, MaxYear, MaxYear + 1},
     genres : {None}, director : {None}]

NoUpdate == [title |-> None, year |-> None, genres |-> None, director |-> None]

OnceUpdates ==
    {NoUpdate,
     [NoUpdate EXCEPT !.title = Some(<<" ", "B", " ">>)],
     [NoUpdate EXCEPT !.title = Some(<<" ">>)],
     [NoUpdate EXCEPT !.title = Some(<<>>)],
     [NoUpdate EXCEPT !.year = Some(MinYear - 1)],
     [NoUpdate EXCEPT !.year = Some(MinYear)],
     [NoUpdate EXCEPT !.year = Some(MaxYear)],
     [NoUpdate EXCEPT !.year = Some(MaxYear + 1)],
     [NoUpdate EXCEPT !.genres = Some(<<>>)],
     [NoUpdate EXCEPT !.genres = Some(<<Some(<<"a">>), Some(<<"A">>)>>)],
     [NoUpdate EXCEPT !.director = Some(<<" ">>)],
     [NoUpdate EXCEPT !.director = Some(<<"b", " ">>)],
     [NoUpdate EXCEPT !.title = Some(<<"b">>), !.year = Some(MinYear - 1)],
     [NoUpdate EXCEPT !.title = Some(<<" ">>), !.year = Some(MaxYear)],
     [title |-> Some(<<"B">>), year |-> Some(MaxYear), genres |-> Some(<<Some(<<"a">>)>>),
      director |-> Some(<<"b">>)]}

\* The add_movie call of SpecRound
RoundAdds ==
    {[title |-> <<"a">>, year |-> MinYear, genres |-> Some(<<Some(<<"a">>)>>),
      director |-> Some(<<"b">>)]}

\* The borrowers of SpecOnce: a name, a blank and the empty string
OnceBorrowers == {Some(<<"b">>), Some(<<" ">>), Some(<<>>)}

\* The borrower names of SpecBorrow
BorrowNames == {Some(<<"a">>), Some(<<"b">>), Some(<<" ", "a">>)}

\* Every argument value of the model
AllAdds == AddArgs \cup PairAdds
AllUpdates == UpdateArgs \cup PairUpdates
AllBorrowers == BorrowerArgs \cup PairBorrowers \cup BorrowNames
AllSearches == SearchArgs \cup PairSearches

\* The argument values an environment's callers use
Adds(e) == IF e.args = "pair" THEN PairAdds ELSE AddArgs
Updates(e) == IF e.args = "pair" THEN PairUpdates ELSE UpdateArgs
Searches(e) == IF e.args = "pair" THEN PairSearches ELSE SearchArgs

BorrowersOf(e) ==
    IF e.args = "borrow" THEN BorrowNames
    ELSE IF e.args = "pair" THEN PairBorrowers
    ELSE BorrowerArgs

\* The callers of Spec and what they call with
SpecEnv ==
    [callers |-> 1..MaxCallers,
     ids |-> 1..MaxIds,
     maxClock |-> MaxClock,
     prompt |-> TRUE,
     args |-> "all"]

Start(e) ==
    /\ lock = 0
    /\ movies = <<>>
    /\ heap = [a \in Addrs |-> FreeRec]
    /\ lists = [x \in ListRefs |-> <<>>]
    /\ clock = 0
    /\ issued = {}
    /\ th = [p \in Callers |-> IF p \in e.callers THEN Idle ELSE [Idle EXCEPT !.pc = "off"]]
    /\ ret = [p \in Callers |-> NoRet]
    /\ env = e
    /\ deleted = {}
    /\ added = [id \in Ids |-> 0]

Init == Start(SpecEnv)

Next ==
    \/ \E p \in Callers : \E x \in AllAdds :
         x \in Adds(env) /\ AddCall(p, x.title, x.year, x.genres, x.director)
    \/ \E p \in Callers : AddInsert(p)
    \/ \E p \in Callers : AddReturn(p)
    \/ \E p \in Callers : \E id \in Ids : id \in env.ids /\ GetMovie(p, id)
    \/ \E p \in Callers : \E f \in BOOLEAN : ListMovies(p, f)
    \/ \E p \in Callers : \E x \in AllSearches :
         x \in Searches(env)
           /\ SearchSnapshot(p, x.query, x.year, x.genre, x.director, x.only_available)
    \/ \E p \in Callers : SearchAvailable(p)
    \/ \E p \in Callers : SearchQuery(p)
    \/ \E p \in Callers : SearchYear(p)
    \/ \E p \in Callers : SearchGenre(p)
    \/ \E p \in Callers : SearchDirector(p)
    \/ \E p \in Callers : SearchKey(p)
    \/ \E p \in Callers : SearchCopy(p)
    \/ \E p \in Callers : \E id \in Ids : \E x \in AllUpdates :
         id \in env.ids /\ x \in Updates(env)
           /\ UpdateRequire(p, id, x.title, x.year, x.genres, x.director)
    \/ \E p \in Callers : UpdateTitle(p)
    \/ \E p \in Callers : UpdateYear(p)
    \/ \E p \in Callers : UpdateGenres(p)
    \/ \E p \in Callers : UpdateDirector(p)
    \/ \E p \in Callers : UpdateStamp(p)
    \/ \E p \in Callers : \E id \in Ids : id \in env.ids /\ DeleteMovie(p, id)
    \/ \E p \in Callers : \E id \in Ids : \E b \in AllBorrowers :
         id \in env.ids /\ b \in BorrowersOf(env) /\ BorrowInvalid(p, id, b)
    \/ \E p \in Callers : \E id \in Ids : \E b \in AllBorrowers :
         id \in env.ids /\ b \in BorrowersOf(env) /\ BorrowCheck(p, id, b)
    \/ \E p \in Callers : BorrowBy(p)
    \/ \E p \in Callers : BorrowAt(p)
    \/ \E p \in Callers : BorrowStamp(p)
    \/ \E p \in Callers : \E id \in Ids : id \in env.ids /\ ReturnCheck(p, id)
    \/ \E p \in Callers : ReturnBy(p)
    \/ \E p \in Callers : ReturnAt(p)
    \/ \E p \in Callers : ReturnStamp(p)
    \/ \E p \in Callers : Forget(p)

Spec == Init /\ [][Next]_vars

-----------------------------------------------------------------------------
(* Two records: the calls that add, remove, find, order and lend records, *)
(* with two ids and one value per argument                                *)

PairEnv ==
    [callers |-> 1..MaxCallers,
     ids |-> 1..MaxPair,
     maxClock |-> PairClock,
     prompt |-> TRUE,
     args |-> "pair"]

InitPair == Start(PairEnv)

NextPair ==
    \/ \E p \in Callers : \E x \in AllAdds :
         x \in Adds(env) /\ AddCall(p, x.title, x.year, x.genres, x.director)
    \/ \E p \in Callers : AddInsert(p)
    \/ \E p \in Callers : AddReturn(p)
    \/ \E p \in Callers : \E id \in Ids : id \in env.ids /\ GetMovie(p, id)
    \/ \E p \in Callers : \E f \in BOOLEAN : ListMovies(p, f)
    \/ \E p \in Callers : \E x \in AllSearches :
         x \in Searches(env)
           /\ SearchSnapshot(p, x.query, x.year, x.genre, x.director, x.only_available)
    \/ \E p \in Callers : SearchAvailable(p)
    \/ \E p \in Callers : SearchKey(p)
    \/ \E p \in Callers : SearchCopy(p)
    \/ \E p \in Callers : \E id \in Ids : \E x \in AllUpdates :
         id \in env.ids /\ x \in Updates(env)
           /\ UpdateRequire(p, id, x.title, x.year, x.genres, x.director)
    \/ \E p \in Callers : UpdateTitle(p)
    \/ \E p \in Callers : UpdateStamp(p)
    \/ \E p \in Callers : \E id \in Ids : id \in env.ids /\ DeleteMovie(p, id)
    \/ \E p \in Callers : \E id \in Ids : \E b \in AllBorrowers :
         id \in env.ids /\ b \in BorrowersOf(env) /\ BorrowInvalid(p, id, b)
    \/ \E p \in Callers : \E id \in Ids : \E b \in AllBorrowers :
         id \in env.ids /\ b \in BorrowersOf(env) /\ BorrowCheck(p, id, b)
    \/ \E p \in Callers : BorrowBy(p)
    \/ \E p \in Callers : BorrowAt(p)
    \/ \E p \in Callers : BorrowStamp(p)
    \/ \E p \in Callers : \E id \in Ids : id \in env.ids /\ ReturnCheck(p, id)
    \/ \E p \in Callers : ReturnBy(p)
    \/ \E p \in Callers : ReturnAt(p)
    \/ \E p \in Callers : ReturnStamp(p)
    \/ \E p \in Callers : Forget(p)

SpecPair == InitPair /\ [][NextPair]_vars

-----------------------------------------------------------------------------
(* Concurrent borrow_movie calls on one record *)

BorrowEnv ==
    [callers |-> 1..MaxBorrowers,
     ids |-> {1},
     maxClock |-> MaxClock,
     prompt |-> FALSE,
     args |-> "borrow"]

\* The store after add_movie("a", 1878) has returned id 1
InitBorrow ==
    /\ lock = 0
    /\ movies = <<[key |-> 1, obj |-> 1]>>
    /\ heap = [a \in Addrs |->
                 IF a = 1
                 THEN [id |-> 1, title |-> <<"a">>, year |-> 1878, genres |-> 1,
                       director |-> None, borrowed |-> FALSE, borrowed_by |-> None,
                       borrowed_at |-> None, created_at |-> 0, updated_at |-> 0]
                 ELSE FreeRec]
    /\ lists = [x \in ListRefs |-> <<>>]
    /\ clock = 0
    /\ issued = {1}
    /\ th = [p \in Callers |->
               IF p \in BorrowEnv.callers THEN Idle ELSE [Idle EXCEPT !.pc = "off"]]
    /\ ret = [p \in Callers |-> NoRet]
    /\ env = BorrowEnv
    /\ deleted = {}
    /\ added = [id \in Ids |-> IF id = 1 THEN 1 ELSE 0]

\* Every caller calls borrow_movie once, with a borrower name that is not empty
NextBorrow ==
    \/ \E p \in Callers : \E id \in Ids : \E b \in AllBorrowers :
         id \in env.ids /\ b \in BorrowersOf(env) /\ BorrowCheck(p, id, b)
    \/ \E p \in Callers : BorrowBy(p)
    \/ \E p \in Callers : BorrowAt(p)
    \/ \E p \in Callers : BorrowStamp(p)

SpecBorrow == InitBorrow /\ [][NextBorrow]_vars

-----------------------------------------------------------------------------
(* A caller that writes to the record it was returned *)

AliasEnv ==
    [callers |-> {1},
     ids |-> 1..MaxIds,
     maxClock |-> MaxClock,
     prompt |-> TRUE,
     args |-> "all"]

\* returned["genres"].append("b")
CallerAppend(p) ==
    /\ th[p].pc = "done"
    /\ \E i \in 1..Len(ret[p].recs) :
         /\ Len(lists[ret[p].recs[i].genres]) < MaxGenres
         /\ Commit(movies, heap,
                   [lists EXCEPT ![ret[p].recs[i].genres] = Append(@, <<"b">>)], th, ret)
    /\ UNCHANGED <<lock, clock, issued, env, deleted, added>>

\* returned["genres"].pop()
CallerPop(p) ==
    /\ th[p].pc = "done"
    /\ \E i \in 1..Len(ret[p].recs) :
         /\ lists[ret[p].recs[i].genres] # <<>>
         /\ Commit(movies, heap,
                   [lists EXCEPT ![ret[p].recs[i].genres] = SubSeq(@, 1, Len(@) - 1)],
                   th, ret)
    /\ UNCHANGED <<lock, clock, issued, env, deleted, added>>

\* returned["title"] = "b"; returned["borrowed"] = not returned["borrowed"]
CallerAssign(p) ==
    /\ th[p].pc = "done"
    /\ \E i \in 1..Len(ret[p].recs) :
         /\ ret[p].recs[i].title # <<"b">>
         /\ Commit(movies, heap, lists, th,
                   [ret EXCEPT ![p].recs[i].title = <<"b">>,
                               ![p].recs[i].borrowed = ~@])
    /\ UNCHANGED <<lock, clock, issued, env, deleted, added>>

NextAlias ==
    \/ Next
    \/ \E p \in Callers : CallerAppend(p)
    \/ \E p \in Callers : CallerPop(p)
    \/ \E p \in Callers : CallerAssign(p)

SpecAlias == Start(AliasEnv) /\ [][NextAlias]_vars

-----------------------------------------------------------------------------
(* list_movies on a collection of up to MaxShelf records *)

ShelfEnv ==
    [callers |-> {1},
     ids |-> {},
     maxClock |-> 0,
     prompt |-> TRUE,
     args |-> "shelf"]

\* What add_movie, update_movie and borrow_movie can have made of a record:
\* its title, year and checkout state
ShelfRecs ==
    [title : {<<"a">>, <<"A">>, <<"b">>}, year : {MinYear, MinYear + 1},
     genres : {<<>>}, director : {None}, borrowed : BOOLEAN]

\* The store holding the records `recs` in insertion order under the ids `ids`,
\* with no call running
Shelf(e, ids, recs) ==
    /\ lock = 0
    /\ movies = [i \in 1..Len(recs) |-> [key |-> ids[i], obj |-> i]]
    /\ heap = [a \in Addrs |->
                 IF a <= Len(recs)
                 THEN [id |-> ids[a], title |-> recs[a].title, year |-> recs[a].year,
                       genres |-> a, director |-> recs[a].director,
                       borrowed |-> recs[a].borrowed,
                       borrowed_by |-> IF recs[a].borrowed THEN Some(<<"a">>) ELSE None,
                       borrowed_at |-> IF recs[a].borrowed THEN Some(0) ELSE None,
                       created_at |-> 0, updated_at |-> 0]
                 ELSE FreeRec]
    /\ lists = [x \in ListRefs |-> IF x <= Len(recs) THEN recs[x].genres ELSE <<>>]
    /\ clock = 0
    /\ issued = Range(ids)
    /\ th = [p \in Callers |-> IF p \in e.callers THEN Idle ELSE [Idle EXCEPT !.pc = "off"]]
    /\ ret = [p \in Callers |-> NoRet]
    /\ env = e
    /\ deleted = {}
    /\ added = [id \in Ids |-> IF id \in Range(ids) THEN 1 ELSE 0]

\* The ids of n records: uuid4 values in any order
ShelfIds(n) == {ids \in [1..n -> Ids] : \A i, j \in 1..n : i # j => ids[i] # ids[j]}

InitList ==
    \E n \in 0..MaxShelf : \E ids \in ShelfIds(n) : \E recs \in [1..n -> ShelfRecs] :
        Shelf(ShelfEnv, ids, recs)

NextList ==
    \/ \E p \in Callers : \E f \in BOOLEAN : ListMovies(p, f)
    \/ \E p \in Callers : Forget(p)

SpecList == InitList /\ [][NextList]_vars

-----------------------------------------------------------------------------
(* search_movies on a collection of up to MaxFound records, with no other *)
(* call running                                                           *)

FoundEnv ==
    [callers |-> {1},
     ids |-> {},
     maxClock |-> 0,
     prompt |-> TRUE,
     args |-> "found"]

\* Records as the write operations leave them: genres normalized, director
\* trimmed or absent
FoundRecs ==
    [title : {<<"a">>, <<"A", "b">>}, year : {MinYear, MinYear + 1},
     genres : {<<>>, <<<<"A">>, <<"b">>>>}, director : {None, Some(<<"a", "B">>)},
     borrowed : BOOLEAN]

InitFound ==
    \E n \in 0..MaxFound : \E ids \in ShelfIds(n) : \E recs \in [1..n -> FoundRecs] :
        /\ Range(ids) = 1..n
        /\ Shelf(FoundEnv, ids, recs)

NextFound ==
    \/ \E p \in Callers : \E x \in FoundSearches :
         SearchSnapshot(p, x.query, x.year, x.genre, x.director, x.only_available)
    \/ \E p \in Callers : SearchAvailable(p)
    \/ \E p \in Callers : SearchQuery(p)
    \/ \E p \in Callers : SearchYear(p)
    \/ \E p \in Callers : SearchGenre(p)
    \/ \E p \in Callers : SearchDirector(p)
    \/ \E p \in Callers : SearchKey(p)
    \/ \E p \in Callers : SearchCopy(p)
    \/ \E p \in Callers : Forget(p)

SpecFound == InitFound /\ [][NextFound]_vars

-----------------------------------------------------------------------------
(* One call of add_movie, update_movie or borrow_movie on a collection of *)
(* up to MaxFound records                                                 *)

OnceEnv ==
    [callers |-> {1},
     ids |-> Ids,
     maxClock |-> MaxClock,
     prompt |-> FALSE,
     args |-> "once"]

OnceRecs ==
    [title : {<<"a">>}, year : {MinYear}, genres : {<<>>, <<<<"b">>>>},
     director : {None, Some(<<"a">>)}, borrowed : BOOLEAN]

InitOnce ==
    \E n \in 0..MaxFound : \E ids \in ShelfIds(n) : \E recs \in [1..n -> OnceRecs] :
        /\ Range(ids) = 1..n
        /\ Shelf(OnceEnv, ids, recs)

NextOnce ==
    \/ \E p \in Callers : \E x \in OnceAdds :
         AddCall(p, x.title, x.year, x.genres, x.director)
    \/ \E p \in Callers : AddInsert(p)
    \/ \E p \in Callers : AddReturn(p)
    \/ \E p \in Callers : \E id \in Ids : \E x \in OnceUpdates :
         UpdateRequire(p, id, x.title, x.year, x.genres, x.director)
    \/ \E p \in Callers : UpdateTitle(p)
    \/ \E p \in Callers : UpdateYear(p)
    \/ \E p \in Callers : UpdateGenres(p)
    \/ \E p \in Callers : UpdateDirector(p)
    \/ \E p \in Callers : UpdateStamp(p)
    \/ \E p \in Callers : \E id \in Ids : \E b \in OnceBorrowers : BorrowInvalid(p, id, b)
    \/ \E p \in Callers : \E id \in Ids : \E b \in OnceBorrowers : BorrowCheck(p, id, b)
    \/ \E p \in Callers : BorrowBy(p)
    \/ \E p \in Callers : BorrowAt(p)
    \/ \E p \in Callers : BorrowStamp(p)

SpecOnce == InitOnce /\ [][NextOnce]_vars

-----------------------------------------------------------------------------
(* Two callers, one call each: add_movie and the calls that only read *)

RoundEnv ==
    [callers |-> 1..MaxCallers,
     ids |-> 1..MaxPair,
     maxClock |-> MaxClock,
     prompt |-> FALSE,
     args |-> "round"]

InitRound ==
    \E n \in 0..1 : \E recs \in [1..n -> OnceRecs] :
        Shelf(RoundEnv, [i \in 1..n |-> i], recs)

NextRound ==
    \/ \E p \in Callers : \E x \in RoundAdds :
         AddCall(p, x.title, x.year, x.genres, x.director)
    \/ \E p \in Callers : AddInsert(p)
    \/ \E p \in Callers : AddReturn(p)
    \/ \E p \in Callers : \E id \in 1..MaxPair : GetMovie(p, id)
    \/ \E p \in Callers : \E f \in BOOLEAN : ListMovies(p, f)
    \/ \E p \in Callers : \E x \in PairSearches :
         SearchSnapshot(p, x.query, x.year, x.genre, x.director, x.only_available)
    \/ \E p \in Callers : SearchAvailable(p)
    \/ \E p \in Callers : SearchKey(p)
    \/ \E p \in Callers : SearchCopy(p)

SpecRound == InitRound /\ [][NextRound]_vars

-----------------------------------------------------------------------------
(* add_movie and update_movie with every genres argument of up to *)
(* MaxGenres + 1 entries                                          *)

GenresEnv ==
    [callers |-> {1},
     ids |-> 1..MaxIds,
     maxClock |-> 0,
     prompt |-> TRUE,
     args |-> "genres"]

\* The entries of a genres argument: in both cases, padded, blank, empty, None
GenreItems ==
    {Some(<<"a">>), Some(<<"A">>), Some(<<" ", "A", " ">>), Some(<<"b">>), Some(<<" ">>),
     Some(<<>>), None}

GenreInputs ==
    {None} \cup {Some(s) : s \in UNION {[1..n -> GenreItems] : n \in 0..(MaxGenres + 1)}}

NextGenres ==
    \/ \E p \in Callers : \E g \in GenreInputs : AddCall(p, <<"a">>, MinYear, g, None)
    \/ \E p \in Callers : AddInsert(p)
    \/ \E p \in Callers : AddReturn(p)
    \/ \E p \in Callers : \E id \in Ids : \E g \in GenreInputs :
         id \in env.ids /\ UpdateRequire(p, id, None, None, g, None)
    \/ \E p \in Callers : UpdateGenres(p)
    \/ \E p \in Callers : UpdateStamp(p)
    \/ \E p \in Callers : Forget(p)

SpecGenres == Start(GenresEnv) /\ [][NextGenres]_vars

-----------------------------------------------------------------------------
(* The properties *)

\* The records of the collection, and the threads inside a call
Stored == {movies[i].obj : i \in 1..Len(movies)}
Done(p) == th[p].pc = "done"

\* The checkout fields of a record agree
CheckoutOk(m) ==
    /\ m.borrowed <=> (~IsNone(m.borrowed_by) /\ ~IsNone(m.borrowed_at))
    /\ ~m.borrowed <=> (IsNone(m.borrowed_by) /\ IsNone(m.borrowed_at))

\* C1: whenever no call is inside its critical section, so after any sequence
\* of calls, successful or failed, every record of the collection has
\* borrowed = true iff borrowed_by and borrowed_at are both present, and
\* borrowed = false iff both are absent.
C1_CheckoutInvariant ==
    lock = 0 => \A a \in Stored : CheckoutOk(heap[a])

\* A borrow_movie call has returned and the record it lent is in the collection
C1_Witness ==
    /\ lock = 0
    /\ \E p \in Callers : Done(p) /\ th[p].op = "borrow" /\ ret[p].kind = "ok"
    /\ \E a \in Stored : heap[a].borrowed /\ heap[a].borrowed_by = Some(<<"a">>)

\* The borrow_movie calls that have started, and those that have returned a record
Borrowing == {p \in env.callers : th[p].op = "borrow"}
Winners == {p \in Borrowing : Done(p) /\ ret[p].kind = "ok"}

\* C2: of the callers that borrow the same unborrowed record concurrently with
\* non-empty names, never more than one succeeds, and once all their calls have
\* ended exactly one has succeeded, every other has failed with Conflict, and
\* the record is borrowed by the caller that succeeded.
C2_OneBorrower ==
    /\ Cardinality(Winners) <= 1
    /\ (Borrowing # {} /\ \A p \in Borrowing : Done(p)) =>
          \E w \in Winners :
            /\ \A p \in Borrowing \ {w} : ret[p].kind = "Conflict"
            /\ \A a \in Stored :
                 /\ heap[a].borrowed
                 /\ heap[a].borrowed_by = Some(Strip(OrEmpty(th[w].a.borrower)))
                 /\ ret[w].recs[1].borrowed_by = heap[a].borrowed_by

\* All the callers have called borrow_movie and every call has ended
C2_Witness ==
    /\ Borrowing = env.callers
    /\ Cardinality(Borrowing) = MaxBorrowers
    /\ \A p \in Borrowing : Done(p)
    /\ \E p \in Borrowing : ret[p].kind = "Conflict"

\* C3: a call that fails (InvalidArgument, NotFound, Conflict, InvalidState)
\* leaves the collection and every field of every record as they were when the
\* call took effect; so an update_movie with a valid title and an out-of-range
\* year does not change the stored title.
C3_FailureChangesNothing ==
    [][\A p \in Callers :
         (~Done(p) /\ th'[p].pc = "done" /\ ret'[p].kind # "ok")
            => View(movies', heap', lists') = th'[p].pre]_vars

\* The record objects whose fields the next step of thread p reads or writes
Touched(p) ==
    LET me == th[p]
        n == Len(me.keys)
    IN  CASE me.pc \in {"search_avail", "search_q", "search_year", "search_g",
                        "search_d", "search_copy"} -> {me.results[me.i]}
          [] me.pc = "search_key" ->
                {me.results[IF n > 0 /\ Len(me.keys[n]) < 3 THEN n ELSE n + 1]}
          [] me.pc \in {"add_return", "update_title", "update_year", "update_genres",
                        "update_director", "update_stamp", "borrow_by", "borrow_at",
                        "borrow_stamp", "return_by", "return_at", "return_stamp"} -> {me.m}
          [] OTHER -> {}

\* C4: every read and every write of a field of a record stored in the
\* collection, by any of the eight operations, is made by a thread that holds
\* the lock; no operation touches a stored record after releasing the lock.
C4_AccessUnderLock ==
    \A p \in Callers : \A a \in Touched(p) : a \in Stored => lock = p

\* The order of list_movies and search_movies on returned copies
InOrder(recs) ==
    \A i \in 1..Len(recs) : \A j \in (i + 1)..Len(recs) :
        ~KeyLess(SortKey(recs[j]), SortKey(recs[i]))

\* C5: with other callers running update, borrow, return and delete, what
\* search_movies returns is the filtered and sorted view of the collection at
\* one moment: every record returned by search(only_available = true) has
\* borrowed = false in the returned copy, and the copies are in
\* (lower-case title, year, id) order.
C5_SearchSnapshot ==
    \A p \in Callers :
        (Done(p) /\ th[p].op = "search" /\ ret[p].kind = "ok") =>
            /\ th[p].a.only_available =>
                  \A i \in 1..Len(ret[p].recs) : ~ret[p].recs[i].borrowed
            /\ InOrder(ret[p].recs)

\* Thread p starts a call of `op` on movie_id in this step
Calls(p, op, movie_id) ==
    /\ th[p].pc = "idle"
    /\ th'[p].pc # "idle"
    /\ th'[p].op = op
    /\ th'[p].a.movie_id = movie_id

\* C6: the checkout flag follows Available -> Borrowed -> Available. A
\* borrow_movie (with a non-empty borrower) on a borrowed record fails with
\* Conflict naming the current borrower, a return_movie on a record that is
\* not borrowed fails with InvalidState, and neither changes any field of the
\* record; on an available record borrow_movie sets the flag and on a borrowed
\* one return_movie clears it, and no other step changes the flag.
C6_CheckoutMachine ==
    [][/\ \A p \in Callers : \A a \in Stored :
            /\ (Calls(p, "borrow", heap[a].id)
                   /\ Strip(OrEmpty(th'[p].a.borrower)) # <<>>) =>
                  IF heap[a].borrowed
                  THEN /\ th'[p].pc = "done"
                       /\ ret'[p].kind = "Conflict"
                       /\ ret'[p].who = heap[a].borrowed_by
                       /\ heap'[a] = heap[a]
                  ELSE th'[p].pc = "borrow_by" /\ heap'[a].borrowed
            /\ Calls(p, "return", heap[a].id) =>
                  IF ~heap[a].borrowed
                  THEN /\ th'[p].pc = "done"
                       /\ ret'[p].kind = "InvalidState"
                       /\ heap'[a] = heap[a]
                  ELSE th'[p].pc = "return_by" /\ ~heap'[a].borrowed
       /\ \A a \in Stored :
            (a \in Stored' /\ heap'[a].borrowed # heap[a].borrowed) =>
                \E p \in Callers :
                    Calls(p, IF heap[a].borrowed THEN "return" ELSE "borrow", heap[a].id)
      ]_vars

\* A borrow_movie on a borrowed record has been rejected, naming its borrower
C6_Witness ==
    \E p \in Callers :
        /\ Done(p) /\ th[p].op = "borrow"
        /\ ret[p].kind = "Conflict" /\ ret[p].who = Some(<<"a">>)
        /\ \E a \in Stored : heap[a].borrowed /\ heap[a].id = th[p].a.movie_id

\* Thread p is in a call on an id that a delete_movie had removed before the
\* call took effect
AfterDelete(p) ==
    /\ th[p].pc \notin {"idle", "off"}
    /\ th[p].a.movie_id \in th[p].gone

\* What a call of thread p on a deleted id raises when its borrower, if any,
\* raises `blank` when it is empty after strip()
DeleteFinality(blank) ==
    /\ \A id \in deleted : DictGet(movies, id) = 0
    /\ \A p \in Callers :
         /\ (AfterDelete(p) /\ th[p].op \in {"get", "update", "return"}) =>
               Done(p) /\ ret[p].kind = "NotFound"
         /\ (AfterDelete(p) /\ th[p].op = "borrow") =>
               /\ Done(p)
               /\ ret[p].kind = IF Strip(OrEmpty(th[p].a.borrower)) = <<>>
                                 THEN blank ELSE "NotFound"
         /\ th[p].op \in {"list", "search"} =>
               \A i \in 1..Len(ret[p].recs) : ret[p].recs[i].id \notin th[p].gone
         /\ th[p].op = "add" => ~AfterDelete(p)

\* C7 as stated: after a successful delete_movie(id), get, update, borrow(id, b)
\* and return on that id fail with NotFound, for every borrower b.
C7_DeleteFinalityAnyBorrower == DeleteFinality("NotFound")

\* C7: after a successful delete_movie(id), get, update and return on that id
\* fail with NotFound, and so does borrow(id, b) when b is not empty after
\* trimming (an empty b fails with InvalidArgument); list and search calls
\* issued afterwards never contain a record with that id, and no later
\* add_movie returns that id.
C7_DeleteFinality == DeleteFinality("InvalidArgument")

\* A get_movie on a deleted id has failed while another record is in the
\* collection
C7_Witness ==
    \E p \in Callers :
        /\ Done(p) /\ th[p].op = "get" /\ AfterDelete(p)
        /\ ret[p].kind = "NotFound"
        /\ \E a \in Stored : heap[a].id \notin deleted /\ added[heap[a].id] = 1

\* C8: the ids returned by add_movie calls are pairwise distinct, each key of
\* the collection maps to a record whose id is that key, no two entries share
\* a key or a record, and no step changes the id of a record.
C8_UniqueIds ==
    [][/\ \A id \in Ids : added'[id] <= 1
       /\ \A i \in 1..Len(movies') :
            /\ heap'[movies'[i].obj].id = movies'[i].key
            /\ \A j \in 1..Len(movies') :
                 i # j => /\ movies'[i].key # movies'[j].key
                          /\ movies'[i].obj # movies'[j].obj
       /\ \A a \in Stored : a \in Stored' => heap'[a].id = heap[a].id
      ]_vars

\* Two add_movie calls have returned and both records are stored
C8_Witness ==
    /\ Len(movies) = 2
    /\ \A id \in 1..2 : added[id] = 1
    /\ \E p \in Callers : Done(p) /\ th[p].op = "add" /\ ret[p].kind = "ok"

\* C9: a caller that modifies a value it was returned, appending to or removing
\* from its genres included, leaves the collection and its records unchanged.
C9_ReturnedValuesAreCopies ==
    [][(\E p \in Callers : Done(p) /\ th'[p].pc = "done")
          => View(movies', heap', lists') = View(movies, heap, lists)]_vars

\* The positions inside a with _lock: block
LockedPcs ==
    {"update_title", "update_year", "update_genres", "update_director", "update_stamp",
     "borrow_by", "borrow_at", "borrow_stamp", "return_by", "return_at", "return_stamp"}

Running(p) == th[p].pc \notin {"idle", "off", "done"}

\* The next step of a call that thread p has started
StepOf(p) ==
    \/ AddInsert(p) \/ AddReturn(p)
    \/ SearchAvailable(p) \/ SearchQuery(p) \/ SearchYear(p) \/ SearchGenre(p)
    \/ SearchDirector(p) \/ SearchKey(p) \/ SearchCopy(p)
    \/ UpdateTitle(p) \/ UpdateYear(p) \/ UpdateGenres(p) \/ UpdateDirector(p)
    \/ UpdateStamp(p)
    \/ BorrowBy(p) \/ BorrowAt(p) \/ BorrowStamp(p)
    \/ ReturnBy(p) \/ ReturnAt(p) \/ ReturnStamp(p)

\* More than the steps one statement of search_movies takes over its list
StageSpan == 3 * Cardinality(Addrs) + 1

\* A bound on the steps a thread's call still has to take
Rank(t) ==
    LET n == Len(t.keys)
        read == IF n = 0 THEN 0 ELSE 3 * (n - 1) + Len(t.keys[n])
    IN  CASE t.pc \in {"search_avail", "search_q", "search_year", "search_g",
                       "search_d", "search_copy"} ->
                (8 - StageIndex(t.pc)) * StageSpan + Len(t.results) - t.i + 1
          [] t.pc = "search_key" -> 2 * StageSpan + 3 * Len(t.results) - read
          [] t.pc = "update_title" -> 5
          [] t.pc = "update_year" -> 4
          [] t.pc \in {"update_genres", "borrow_by", "return_by"} -> 3
          [] t.pc \in {"update_director", "borrow_at", "return_at", "add_lock"} -> 2
          [] t.pc \in {"update_stamp", "borrow_stamp", "return_stamp", "add_return"} -> 1
          [] OTHER -> 0

\* The lock is held exactly by a thread inside a with block, so a call that
\* has returned or raised has released it; a started call can take its next
\* step unless another call holds the lock, and that call can take its own; a
\* caller outside any call can start one and complete it when the lock is free
LockDiscipline ==
    /\ lock \in {0} \cup Callers
    /\ \A p \in Callers :
         /\ lock = p <=> th[p].pc \in LockedPcs
         /\ (Running(p) /\ Quiet) =>
               \/ ENABLED StepOf(p)
               \/ lock \notin {0, p} /\ ENABLED StepOf(lock)
         /\ Done(p) => ENABLED Forget(p)
         /\ (th[p].pc = "idle" /\ Quiet /\ lock = 0) =>
               ENABLED (\E id \in env.ids : GetMovie(p, id))

\* Every step of a started call brings it nearer to its end
Progress ==
    \A p \in Callers :
        (Running(p) /\ th'[p] # th[p]) =>
            /\ Rank(th'[p]) < Rank(th[p])
            /\ Rank(th'[p]) = 0 <=> th'[p].pc = "done"

\* C10: every call ends, with a result or an error, after a bounded number of
\* steps of its own, delayed only by a call that holds the lock and can itself
\* go on; it has released the lock when it returns, on success and on every
\* error path, so no state is a deadlock and after a failed call any caller
\* can still take the lock and complete a call.
C10_TerminatesAndReleases == []LockDiscipline /\ [][Progress]_vars

\* An update_movie has failed on its year after taking the lock, and the lock
\* is free
C10_Witness ==
    \E p \in Callers :
        /\ Done(p) /\ th[p].op = "update" /\ ret[p].kind = "InvalidArgument"
        /\ ~IsNone(th[p].a.year)
        /\ lock = 0

\* Thread p ends a successful call of `op` on the record at address a in this step
Succeeds(p, op, a) ==
    /\ Running(p)
    /\ th[p].op = op
    /\ th[p].m = a
    /\ th'[p].pc = "done"
    /\ ret'[p].kind = "ok"

\* C11: with a clock that never goes backwards, every stored record has
\* updated_at >= created_at, created_at never changes after add_movie,
\* updated_at never decreases, and every successful update_movie, borrow_movie
\* and return_movie sets updated_at to the clock reading it takes, which is not
\* earlier than the record's previous updated_at.
C11_Timestamps ==
    [][\A a \in Stored' :
         /\ heap'[a].updated_at >= heap'[a].created_at
         /\ a \in Stored =>
              /\ heap'[a].created_at = heap[a].created_at
              /\ heap'[a].updated_at >= heap[a].updated_at
              /\ \A p \in Callers :
                   (\E op \in {"update", "borrow", "return"} : Succeeds(p, op, a)) =>
                       /\ heap'[a].updated_at = clock'
                       /\ clock' >= clock
                       /\ ret'[p].recs[1].updated_at = clock'
      ]_vars

\* An update_movie has returned a record stamped later than it was created
C11_Witness ==
    \E p \in Callers :
        /\ Done(p) /\ th[p].op = "update" /\ ret[p].kind = "ok"
        /\ ret[p].recs[1].updated_at > ret[p].recs[1].created_at
        /\ \E a \in Stored : heap[a].updated_at > heap[a].created_at

\* The order of section 4.1: title ignoring case, then year, then id
ListBefore(r1, r2) ==
    \/ StrLess(Lower(r1.title), Lower(r2.title))
    \/ /\ Lower(r1.title) = Lower(r2.title)
       /\ \/ r1.year < r2.year
          \/ r1.year = r2.year /\ r1.id < r2.id

\* C12: list_movies(only_available) returns exactly one copy of each record of
\* the collection (of each record with borrowed = false when only_available),
\* strictly ascending by (title lower-cased, year, id): titles equal ignoring
\* case are ordered by year, and by id when the years tie.
C12_ListOrder ==
    \A p \in Callers :
        (Done(p) /\ th[p].op = "list") =>
            LET recs == ret[p].recs
                want == {a \in Stored : ~(th[p].a.only_available /\ heap[a].borrowed)}
            IN  /\ ret[p].kind = "ok"
                /\ Len(recs) = Cardinality(want)
                /\ \A a \in want : \E i \in 1..Len(recs) : recs[i] = heap[a]
                /\ \A i \in 1..Len(recs) : \A j \in (i + 1)..Len(recs) :
                     ListBefore(recs[i], recs[j])

\* list_movies has returned three records: the first two differ only in the
\* case of the title and are ordered by year, against their ids and against
\* their insertion order
C12_Witness ==
    \E p \in Callers :
        /\ Done(p) /\ th[p].op = "list" /\ Len(ret[p].recs) = 3
        /\ ret[p].recs[1].title = <<"a">> /\ ret[p].recs[2].title = <<"A">>
        /\ ret[p].recs[1].year < ret[p].recs[2].year
        /\ ret[p].recs[1].id > ret[p].recs[2].id
        /\ DictGet(movies, ret[p].recs[3].id) = 1

\* A text filter as given, and as search_movies compares it
AsGiven(s) == s
Trimmed(s) == Strip(s)

\* Record m with genres gl satisfies every filter of a that is provided; a text
\* filter is read through T, and it is provided when it is given and, read
\* through T, not empty
Satisfies(a, m, gl, T(_)) ==
    LET q == Lower(T(OrEmpty(a.query)))
        g == Lower(T(OrEmpty(a.genre)))
        d == Lower(T(OrEmpty(a.director)))
    IN  /\ q # <<>> => Contains(Lower(m.title), q)
        /\ ~IsNone(a.year) => m.year = Val(a.year)
        /\ g # <<>> => \E i \in 1..Len(gl) : Lower(gl[i]) = g
        /\ d # <<>> => ~IsNone(m.director) /\ Contains(Lower(Val(m.director)), d)
        /\ a.only_available => ~m.borrowed

\* What search_movies has returned is exactly the records satisfying the
\* filters read through T, in the order of list_movies
SearchReturns(T(_)) ==
    \A p \in Callers :
        (Done(p) /\ th[p].op = "search") =>
            LET recs == ret[p].recs
                want == {a \in Stored : Satisfies(th[p].a, heap[a], lists[heap[a].genres], T)}
            IN  /\ ret[p].kind = "ok"
                /\ Len(recs) = Cardinality(want)
                /\ \A a \in want : \E i \in 1..Len(recs) : recs[i] = heap[a]
                /\ \A i \in 1..Len(recs) : \A j \in (i + 1)..Len(recs) :
                     ListBefore(recs[i], recs[j])

\* C13 as stated: with no concurrent mutation, search_movies returns exactly
\* the records for which the query as given is a substring of the title
\* ignoring case, the year is equal, the genre as given equals a genre entry
\* ignoring case, the director as given is a substring of the record's
\* director ignoring case, and borrowed = false when only_available.
C13_SearchFiltersAsGiven == SearchReturns(AsGiven)

\* C13: with no concurrent mutation, search_movies returns exactly the records
\* that satisfy every provided filter at once, the text filters being trimmed
\* before they are compared and a text filter that is empty after trimming
\* counting as not provided; a record with no director never matches a director
\* filter that is not empty after trimming.
C13_SearchFilters == SearchReturns(Trimmed)

\* A search_movies with every filter given has selected one record of two
C13_Witness ==
    \E p \in Callers :
        /\ Done(p) /\ th[p].op = "search" /\ Len(ret[p].recs) = 1 /\ Len(movies) = 2
        /\ ~IsNone(th[p].a.query) /\ ~IsNone(th[p].a.year) /\ ~IsNone(th[p].a.genre)
        /\ ~IsNone(th[p].a.director) /\ th[p].a.only_available

\* The entry of the view v under key k
Entry(v, k) == v[CHOOSE i \in 1..Len(v) : v[i].key = k]

\* C14: a successful update_movie(id, ...) leaves the collection's keys and
\* every other record as they were when the call took effect; in the record
\* itself id, created_at, borrowed, borrowed_by and borrowed_at are unchanged,
\* each omitted field among title, year, genres and director keeps its value,
\* each provided one holds the value given, normalized as add_movie does, and
\* genres given as the empty sequence leaves the stored genres empty.
C14_UpdateFrame ==
    \A p \in Callers :
        (Done(p) /\ th[p].op = "update" /\ ret[p].kind = "ok") =>
            LET a == th[p].a
                old == th[p].pre
                new == View(movies, heap, lists)
                o == Entry(old, a.movie_id)
                n == Entry(new, a.movie_id)
            IN  /\ Len(new) = Len(old)
                /\ \A i \in 1..Len(old) :
                     /\ new[i].key = old[i].key
                     /\ old[i].key # a.movie_id => new[i] = old[i]
                /\ n.rec.id = o.rec.id
                /\ n.rec.created_at = o.rec.created_at
                /\ n.rec.borrowed = o.rec.borrowed
                /\ n.rec.borrowed_by = o.rec.borrowed_by
                /\ n.rec.borrowed_at = o.rec.borrowed_at
                /\ n.rec.title = IF IsNone(a.title) THEN o.rec.title ELSE Strip(Val(a.title))
                /\ n.rec.year = IF IsNone(a.year) THEN o.rec.year ELSE Val(a.year)
                /\ n.genres = IF IsNone(a.genres) THEN o.genres ELSE NormalizeGenres(a.genres)
                /\ a.genres = Some(<<>>) => n.genres = <<>>
                /\ n.rec.director =
                     IF IsNone(a.director) THEN o.rec.director
                     ELSE IF Strip(Val(a.director)) = <<>> THEN None
                     ELSE Some(Strip(Val(a.director)))
                /\ n.rec.updated_at >= o.rec.updated_at
                /\ ret[p].recs[1] = n.rec

\* An update_movie giving only the empty genres has emptied the genres of a
\* borrowed record that has a director, next to another record
C14_Witness ==
    \E p \in Callers :
        /\ Done(p) /\ th[p].op = "update" /\ ret[p].kind = "ok"
        /\ th[p].a.genres = Some(<<>>) /\ IsNone(th[p].a.title)
        /\ Len(movies) = 2
        /\ Entry(th[p].pre, th[p].a.movie_id).genres # <<>>
        /\ ret[p].recs[1].borrowed /\ ~IsNone(ret[p].recs[1].director)

\* The collection held id when the call of thread q took effect
Found(q, id) == \E i \in 1..Len(th[q].pre) : th[q].pre[i].key = id

\* With no other call on the id, a get_movie that comes after add_movie has
\* stored the record returns the record that add_movie returns, genres included
RoundTrip ==
    \A p, q \in Callers :
        (/\ Done(p) /\ th[p].op = "add" /\ ret[p].kind = "ok"
         /\ Done(q) /\ th[q].op = "get"
         /\ Found(q, ret[p].recs[1].id)
         /\ th[q].a.movie_id = ret[p].recs[1].id) =>
            /\ ret[q].kind = "ok"
            /\ ret[q].recs[1] = ret[p].recs[1]
            /\ lists[ret[q].recs[1].genres] = NormalizeGenres(th[p].a.genres)

\* No step of a get_movie, list_movies or search_movies changes the collection
\* or any field of any record
ReadsOnly ==
    \A p \in Callers :
        (th'[p] # th[p] /\ th'[p].op \in {"get", "list", "search"}) =>
            View(movies', heap', lists') = View(movies, heap, lists)

\* C15: add_movie followed by get_movie with the returned id, with no other
\* operation on that id, returns a record equal in every field to the one
\* add_movie returned; get_movie, list_movies and search_movies never change
\* the collection or any field of any record, updated_at included.
C15_RoundTrip == []RoundTrip /\ [][ReadsOnly]_vars

\* add_movie has returned a record and a get_movie on its id has returned
C15_Witness ==
    \E p, q \in Callers :
        /\ Done(p) /\ th[p].op = "add" /\ ret[p].kind = "ok"
        /\ Done(q) /\ th[q].op = "get" /\ ret[q].kind = "ok"
        /\ th[q].a.movie_id = ret[p].recs[1].id
        /\ ret[p].recs[1].updated_at > ret[p].recs[1].created_at

\* The entries of a genres argument as given, "" for None
Given(genres) == [i \in 1..Len(OrEmpty(genres)) |-> OrEmpty(Val(genres)[i])]

\* out is what the spec asks of the genres given: every entry is trimmed and
\* not empty, no two are equal ignoring case, and the entries are, in input
\* order, the trimmed first occurrences of the entries given
NormalOf(out, given) ==
    LET first == {i \in 1..Len(given) :
                    /\ Strip(given[i]) # <<>>
                    /\ \A j \in 1..(i - 1) : Lower(Strip(given[j])) # Lower(Strip(given[i]))}
        nth(k) == CHOOSE i \in first : Cardinality({j \in first : j < i}) = k - 1
    IN  /\ \A i \in 1..Len(out) : out[i] # <<>> /\ Strip(out[i]) = out[i]
        /\ \A i, j \in 1..Len(out) : i # j => Lower(out[i]) # Lower(out[j])
        /\ Len(out) = Cardinality(first)
        /\ \A k \in 1..Len(out) : out[k] = Strip(given[nth(k)])

\* C16: the genres of every stored record contain no empty or whitespace-only
\* entry and no two entries equal ignoring case; the genres that add_movie and
\* update_movie store are the trimmed first occurrences of the entries given,
\* in input order; and normalizing a normalized list returns the same list.
C16_GenresNormalized ==
    /\ \A a \in Stored :
         LET gl == lists[heap[a].genres]
         IN  /\ NormalOf(gl, gl)
             /\ NormalizeGenres(Some([i \in 1..Len(gl) |-> Some(gl[i])])) = gl
    /\ \A p \in Callers :
         (Done(p) /\ th[p].op \in {"add", "update"} /\ ret[p].kind = "ok"
            /\ ~IsNone(th[p].a.genres)) =>
             NormalOf(lists[ret[p].recs[1].genres], Given(th[p].a.genres))

\* An update_movie given " A ", "a", "b" has stored the genres "A", "b"
C16_Witness ==
    \E p \in Callers :
        /\ Done(p) /\ th[p].op = "update" /\ ret[p].kind = "ok"
        /\ th[p].a.genres = Some(<<Some(<<" ", "A", " ">>), Some(<<"a">>), Some(<<"b">>)>>)
        /\ \E a \in Stored : lists[heap[a].genres] = <<<<"A">>, <<"b">>>>

\* A title and a year as the spec accepts them
TitleOk(title) == Strip(title) # <<>>
YearOk(year) == year \in 1878..3000

\* add_movie succeeds exactly on a title and a year the spec accepts, and
\* update_movie of a record of the collection exactly when the title and the
\* year it is given are such; otherwise they raise InvalidArgument
ValidationOutcome ==
    \A p \in Callers :
        /\ (Done(p) /\ th[p].op = "add") =>
              ret[p].kind = IF TitleOk(Val(th[p].a.title)) /\ YearOk(Val(th[p].a.year))
                            THEN "ok" ELSE "InvalidArgument"
        /\ (Done(p) /\ th[p].op = "update" /\ Found(p, th[p].a.movie_id)) =>
              ret[p].kind = IF /\ ~IsNone(th[p].a.title) => TitleOk(Val(th[p].a.title))
                               /\ ~IsNone(th[p].a.year) => YearOk(Val(th[p].a.year))
                            THEN "ok" ELSE "InvalidArgument"

\* Every stored record has a trimmed, non-empty title and a year in 1878..3000
StoredValid ==
    \A a \in Stored :
        /\ heap[a].title # <<>> /\ Strip(heap[a].title) = heap[a].title
        /\ YearOk(heap[a].year)

\* An add_movie or update_movie that has failed on its title or year has
\* inserted and changed nothing
InvalidChangesNothing ==
    \A p \in Callers :
        (Done(p) /\ th[p].op \in {"add", "update"} /\ ret[p].kind = "InvalidArgument") =>
            View(movies, heap, lists) = th[p].pre

\* C17: add_movie accepts exactly a title that is not empty after trimming with
\* a year in 1878..3000, update_movie applies the same checks to the title and
\* year it is given; years 1877 and 3001 and a blank title fail with
\* InvalidArgument and insert or change nothing, 1878 and 3000 with a title
\* succeed; every stored record has a non-empty trimmed title and a year in
\* range.
C17_ValidationBoundaries ==
    /\ ValidationOutcome
    /\ StoredValid
    /\ InvalidChangesNothing

\* C18: every record returned by a successful add_movie has created_at equal to
\* updated_at, both the same reading of the clock, even when the clock
\* advances while add_movie is running.
C18_CreatedIsUpdated ==
    \A p \in Callers :
        (Done(p) /\ th[p].op = "add" /\ ret[p].kind = "ok") =>
            ret[p].recs[1].created_at = ret[p].recs[1].updated_at

\* C19: borrow_movie fails with InvalidArgument on a borrower that is empty or
\* blank, whether the id is absent, available or borrowed; else with NotFound on
\* an absent id; else with Conflict on a borrowed record; else it succeeds.
\* update_movie on an absent id fails with NotFound whatever fields it is given.
C19_CheckOrder ==
    \A p \in Callers :
        /\ (Done(p) /\ th[p].op = "borrow") =>
              ret[p].kind =
                 IF Strip(OrEmpty(th[p].a.borrower)) = <<>> THEN "InvalidArgument"
                 ELSE IF ~Found(p, th[p].a.movie_id) THEN "NotFound"
                 ELSE IF Entry(th[p].pre, th[p].a.movie_id).rec.borrowed THEN "Conflict"
                 ELSE "ok"
        /\ (Done(p) /\ th[p].op = "update" /\ ~Found(p, th[p].a.movie_id)) =>
              ret[p].kind = "NotFound"

\* A borrow_movie with a blank borrower on a borrowed record has failed with
\* InvalidArgument
C19_Witness ==
    \E p \in Callers :
        /\ Done(p) /\ th[p].op = "borrow" /\ ret[p].kind = "InvalidArgument"
        /\ th[p].a.borrower = Some(<<" ">>)
        /\ Found(p, th[p].a.movie_id)
        /\ Entry(th[p].pre, th[p].a.movie_id).rec.borrowed

\* The call of thread p found its record borrowed when it took effect
FoundBorrowed(p) ==
    /\ Found(p, th[p].a.movie_id)
    /\ Entry(th[p].pre, th[p].a.movie_id).rec.borrowed

\* C20: delete_movie on a borrowed record succeeds and removes it, and a
\* return_movie on the id after that fails with NotFound; update_movie on a
\* borrowed record fails only on an invalid title or year, and when it
\* succeeds the record is still borrowed, by the same borrower since the same
\* time.
C20_CheckoutDoesNotRestrict ==
    \A p \in Callers :
        /\ (Done(p) /\ th[p].op = "delete" /\ FoundBorrowed(p)) =>
              /\ ret[p].kind = "ok"
              /\ DictGet(movies, th[p].a.movie_id) = 0
              /\ th[p].a.movie_id \in deleted
        /\ (Done(p) /\ th[p].op = "return" /\ AfterDelete(p)) => ret[p].kind = "NotFound"
        /\ (Done(p) /\ th[p].op = "update" /\ FoundBorrowed(p)) =>
              LET o == Entry(th[p].pre, th[p].a.movie_id).rec
                  n == heap[DictGet(movies, th[p].a.movie_id)]
              IN  /\ ret[p].kind =
                        IF /\ ~IsNone(th[p].a.title) => TitleOk(Val(th[p].a.title))
                           /\ ~IsNone(th[p].a.year) => YearOk(Val(th[p].a.year))
                        THEN "ok" ELSE "InvalidArgument"
                  /\ n.borrowed
                  /\ n.borrowed_by = o.borrowed_by
                  /\ n.borrowed_at = o.borrowed_at
                  /\ ret[p].kind = "ok" => ret[p].recs[1] = n

\* A delete_movie has removed a record that was borrowed
C20_Witness ==
    \E p \in Callers :
        /\ Done(p) /\ th[p].op = "delete" /\ ret[p].kind = "ok"
        /\ FoundBorrowed(p)
        /\ Entry(th[p].pre, th[p].a.movie_id).rec.borrowed_by = Some(<<"a">>)

====
